---- MODULE Spec2Model ----
(***************************************************************************)
(* A model of portafilter's validation engine: Ruleset parsing and         *)
(* evaluation (portafilter/rules.py) and the Validator orchestration       *)
(* (portafilter/validator.py).                                             *)
(*                                                                         *)
(* Python values are tagged tuples: <<"none">>, <<"int", n>>,              *)
(* <<"float", tenths>>, <<"bool", b>>, <<"str", s>>, <<"list", seq>>,      *)
(* <<"dict", function>>.  A field path is the sequence of its dot-separated*)
(* segments.  A rule expression is the sequence of its lexemes: words and  *)
(* the delimiters "|", ":" and ",".                                        *)
(***************************************************************************)
EXTENDS Integers, Sequences, FiniteSets, TLC

(***************************************************************************)
(* Bounds of the model.                                                    *)
(***************************************************************************)
\* validate()/passes()/fails() calls made on one Validator
MaxCalls == 2
\* length of the arrays put under a wildcard path
MaxItems == 2

(***************************************************************************)
(* Python values.                                                          *)
(***************************************************************************)
None == <<"none">>
PyInt(n) == <<"int", n>>
PyFloat(t) == <<"float", t>>
PyBool(b) == <<"bool", b>>
PyStr(s) == <<"str", s>>
PyList(s) == <<"list", s>>
PyDict(f) == <<"dict", f>>
EmptyDict == PyDict([k \in {} |-> None])

Tag(v) == v[1]
IsNone(v) == Tag(v) = "none"
IsStr(v) == Tag(v) = "str"
IsList(v) == Tag(v) = "list"
IsDict(v) == Tag(v) = "dict"
IsBool(v) == Tag(v) = "bool"
\* isinstance(v, int): bool is a subclass of int
IsInt(v) == Tag(v) \in {"int", "bool"}
\* isinstance(v, numbers.Number)
IsNumber(v) == Tag(v) \in {"int", "bool", "float"}

\* The numeric value in tenths, so that 1 == 1.0 == True compare as Python does.
NumTenths(v) ==
  CASE Tag(v) = "int"   -> 10 * v[2]
    [] Tag(v) = "float" -> v[2]
    [] Tag(v) = "bool"  -> IF v[2] THEN 10 ELSE 0

\* Python's truth value of v
Truthy(v) ==
  CASE Tag(v) = "none"  -> FALSE
    [] Tag(v) = "str"   -> v[2] # ""
    [] Tag(v) = "list"  -> Len(v[2]) > 0
    [] Tag(v) = "dict"  -> DOMAIN v[2] # {}
    [] OTHER            -> NumTenths(v) # 0

\* Python's v == w
PyEq(v, w) ==
  IF IsNumber(v) /\ IsNumber(w) THEN NumTenths(v) = NumTenths(w)
  ELSE v = w

\* len(v) of a str or a list
PyLen(v) == Len(v[2])

(***************************************************************************)
(* ValueType (portafilter/enums.py) and the rule registry: the classes     *)
(* named <Name>Rule in the globals of rules.py.                            *)
(***************************************************************************)
ValueTypes == {"string", "integer", "numeric", "list", "dict"}

\* The concrete Rule subclasses of rules.py, without the "Rule" suffix.
RuleClasses ==
  {"Required", "Nullable", "String", "Min", "Max", "Integer", "Numeric",
   "Boolean", "In", "NotIn", "Same", "Email", "List", "Dict", "Date",
   "After", "AfterOrEqual", "Before", "BeforeOrEqual"}

\* ''.join([_.capitalize() for _ in name.split('_')]) over the words the
\* model uses: capitalize() upper-cases the first letter of each part and
\* lower-cases the rest.
CamelCase(name) ==
  CASE name \in {"required", "Required", "REQUIRED"} -> "Required"
    [] name \in {"nullable", "Nullable", "NULLABLE"} -> "Nullable"
    [] name \in {"string", "String", "STRING"}       -> "String"
    [] name \in {"min", "Min", "MIN"}                -> "Min"
    [] name \in {"max", "Max", "MAX"}                -> "Max"
    [] name \in {"integer", "Integer"}               -> "Integer"
    [] name \in {"numeric", "Numeric"}               -> "Numeric"
    [] name \in {"boolean", "Boolean"}               -> "Boolean"
    [] name \in {"in", "In"}                         -> "In"
    [] name \in {"not_in", "Not_In", "not_In"}       -> "NotIn"
    [] name \in {"same", "Same"}                     -> "Same"
    [] name \in {"email", "Email"}                   -> "Email"
    [] name \in {"list", "List"}                     -> "List"
    [] name \in {"dict", "Dict", "DICT"}             -> "Dict"
    [] name \in {"date", "Date"}                     -> "Date"
    [] name \in {"after", "After"}                   -> "After"
    [] name \in {"after_or_equal"}                   -> "AfterOrEqual"
    [] name \in {"before", "Before"}                 -> "Before"
    [] name \in {"before_or_equal"}                  -> "BeforeOrEqual"
    [] name = ""                                     -> ""
    [] name \in {"unique", "Unique"}                 -> "Unique"
    [] name \in {"str", "Str"}                       -> "Str"
    [] OTHER                                         -> "Unknown"

\* globals().get(f"{CamelCase(name)}Rule"): a concrete rule class, the
\* abstract base class Rule itself (for the empty name), or nothing.
LookupRuleClass(name) ==
  LET c == CamelCase(name) IN
  IF c \in RuleClasses THEN [kind |-> "rule", cls |-> c]
  ELSE IF c = "" THEN [kind |-> "abstract", cls |-> ""]
  ELSE [kind |-> "missing", cls |-> c]

(***************************************************************************)
(* Strings as lexeme sequences: str.split and str.join.                    *)
(***************************************************************************)
RECURSIVE Concat(_)
\* ''.join(lexemes)
Concat(ls) == IF ls = <<>> THEN "" ELSE Head(ls) \o Concat(Tail(ls))

RECURSIVE SplitOn(_, _)
\* s.split(sep): always at least one piece; adjacent separators give empty pieces
SplitOn(ls, sep) ==
  IF ls = <<>> THEN << <<>> >>
  ELSE LET rest == SplitOn(Tail(ls), sep) IN
       IF Head(ls) = sep THEN << <<>> >> \o rest
       ELSE << <<Head(ls)>> \o Head(rest) >> \o Tail(rest)

RECURSIVE JoinWith(_, _)
\* sep.join(pieces), as lexemes
JoinWith(pieces, sep) ==
  IF pieces = <<>> THEN <<>>
  ELSE IF Len(pieces) = 1 THEN pieces[1]
  ELSE pieces[1] \o <<sep>> \o JoinWith(Tail(pieces), sep)

\* Ruleset._split_rule_params
SplitRuleParams(ls) ==
  IF ls = <<>> THEN <<>>
  ELSE LET ps == SplitOn(ls, ",") IN [i \in 1..Len(ps) |-> Concat(ps[i])]

(***************************************************************************)
(* Ruleset: an ordered mapping rule name -> rule, with an error list.      *)
(* A rule is a record: its key in the mapping (name, as written), its      *)
(* class, its string parameters, the parameters injected by add_param and  *)
(* its metadata.                                                           *)
(***************************************************************************)
\* Rule.__init__: the parameters, and metadata {'value_type': None}
NewRule(name, cls, params) ==
  [name |-> name, cls |-> cls, params |-> params, injected |-> <<>>,
   value_type |-> "none", required |-> FALSE, nullable |-> FALSE]

\* parsed_rules[name] = rule on an OrderedDict: a known key keeps its place
OrderedPut(rules, rule) ==
  IF \E i \in 1..Len(rules) : rules[i].name = rule.name
  THEN [i \in 1..Len(rules) |-> IF rules[i].name = rule.name THEN rule ELSE rules[i]]
  ELSE Append(rules, rule)

\* One string token of Ruleset._parse: the name before the first ':', the
\* comma-separated parameters after it, and the class looked up for the name.
ParseToken(token) ==
  LET parts  == SplitOn(token, ":")
      name   == Concat(parts[1])
      params == SplitRuleParams(JoinWith(Tail(parts), ":"))
      found  == LookupRuleClass(name)
  IN  [name |-> name, params |-> params, kind |-> found.kind, cls |-> found.cls]

RECURSIVE ParseTokens(_, _)
\* The loop of Ruleset._parse over the tokens: the first token that cannot
\* be turned into a rule ends it with its exception.
ParseTokens(tokens, parsed) ==
  IF tokens = <<>> THEN [exc |-> "none", rules |-> parsed]
  ELSE LET t == ParseToken(Head(tokens)) IN
       CASE t.kind = "rule" ->
              ParseTokens(Tail(tokens), OrderedPut(parsed, NewRule(t.name, t.cls, t.params)))
         [] t.kind = "abstract" -> [exc |-> "TypeError", rules |-> parsed]
         [] OTHER -> [exc |-> "InvalidRule", rules |-> parsed]

\* Ruleset._parse of a rule expression string
Parse(expr) == ParseTokens(SplitOn(expr, "|"), <<>>)

\* Ruleset.has_rule
HasRule(ruleset, name) == \E i \in 1..Len(ruleset.rules) : ruleset.rules[i].name = name

\* Ruleset.get_rule
GetRule(ruleset, name) ==
  ruleset.rules[CHOOSE i \in 1..Len(ruleset.rules) : ruleset.rules[i].name = name]

RECURSIVE LastValueType(_)
\* The value type taken from the last declared type rule
LastValueType(rules) ==
  IF rules = <<>> THEN "string"
  ELSE IF rules[Len(rules)].name \in ValueTypes THEN rules[Len(rules)].name
  ELSE LastValueType(SubSeq(rules, 1, Len(rules) - 1))

RECURSIVE FirstValueType(_)
\* The loop of Ruleset.get_value_type: the first rule name that is a ValueType
FirstValueType(rules) ==
  IF rules = <<>> THEN "string"
  ELSE IF Head(rules).name \in ValueTypes THEN Head(rules).name
  ELSE FirstValueType(Tail(rules))

\* Ruleset.get_value_type
GetValueType(ruleset) == FirstValueType(ruleset.rules)

\* Ruleset._set_rules_metadata
SetRulesMetadata(ruleset) ==
  LET vt == GetValueType(ruleset)
      rq == HasRule(ruleset, "required")
      nl == HasRule(ruleset, "nullable")
  IN  [ruleset EXCEPT !.rules =
         [i \in 1..Len(ruleset.rules) |->
            [ruleset.rules[i] EXCEPT !.value_type = vt, !.required = rq, !.nullable = nl]]]

\* Ruleset.__init__: [exc, ruleset]
NewRuleset(expr) ==
  LET p == Parse(expr) IN
  IF p.exc # "none" THEN [exc |-> p.exc, ruleset |-> [rules |-> <<>>, errors |-> <<>>]]
  ELSE [exc |-> "none", ruleset |-> SetRulesMetadata([rules |-> p.rules, errors |-> <<>>])]

RECURSIVE ParseRuleList(_, _)
\* RuleList._parse: one Ruleset per attribute, in the order of the mapping;
\* rulesIn is a sequence of <<attribute, expression>>.
ParseRuleList(rulesIn, parsed) ==
  IF rulesIn = <<>> THEN [exc |-> "none", rules |-> parsed]
  ELSE LET r == NewRuleset(Head(rulesIn)[2]) IN
       IF r.exc # "none" THEN [exc |-> r.exc, rules |-> parsed]
       ELSE ParseRuleList(Tail(rulesIn),
                          Append(parsed, [attribute |-> Head(rulesIn)[1], ruleset |-> r.ruleset]))

(***************************************************************************)
(* The collaborators of rules.py: the message service (utils.trans) and    *)
(* the date service (sandglass.Sandglass).                                 *)
(***************************************************************************)
\* trans(key, attributes): the rendered message, kept as its key, the
\* attribute it names and its other placeholder
Trans(key, attribute, arg) == [key |-> key, attribute |-> attribute, arg |-> arg]

\* Sandglass.now(), as a day number
Today == 23

\* Sandglass.is_parse_special_key
IsParseSpecialKey(v) == IsStr(v) /\ v[2] \in {"today", "tomorrow", "yesterday", "now"}

\* Sandglass(text).start_of_day() as a day number; -1 when the text does not parse
ParseDay(text) ==
  CASE text = "2022-12-22" -> 22
    [] text = "2022-12-23" -> 23
    [] text = "2022-12-24" -> 24
    [] text \in {"today", "now"} -> Today
    [] text = "tomorrow"   -> Today + 1
    [] text = "yesterday"  -> Today - 1
    [] OTHER               -> -1

\* The day of a validated value; -1 when Sandglass raises
ValueDay(v) == IF IsStr(v) THEN ParseDay(v[2]) ELSE -1

\* float(text) in tenths; -1 when float() raises ValueError
ParseFloat(text) ==
  CASE text = "0"   -> 0
    [] text = "1"   -> 10
    [] text = "2"   -> 20
    [] text = "3"   -> 30
    [] text = "5"   -> 50
    [] text = "2.5" -> 25
    [] OTHER        -> -1

\* The strings of the model that EmailRule's regular expression matches
EmailStrings == {"a@b.io"}

(***************************************************************************)
(* Rule predicates.  A predicate's outcome is "pass", "fail" or the name   *)
(* of the exception it raises.                                             *)
(***************************************************************************)
\* Rule.get_params: the string parameters, then the injected ones
GetParams(rule) ==
  [i \in 1..Len(rule.params) |-> <<"s", rule.params[i]>>] \o
  [i \in 1..Len(rule.injected) |-> <<"d", rule.injected[i]>>]

Bool2Outcome(b) == IF b THEN "pass" ELSE "fail"

\* Skipping only for a nullable field
IsSkippableNullableOnly(rule, value) == IsNone(value) /\ rule.nullable

\* Rule.is_skippable, with the transient metadata 'value' set to value
IsSkippable(rule, value) == IsNone(value) /\ (rule.nullable \/ ~rule.required)

\* required asking for a truthy value of numbers and booleans as well
RequiredPassesTruthyOnly(rule, value) ==
  Bool2Outcome((rule.nullable /\ IsNone(value)) \/ Truthy(value))

\* RequiredRule.passes
RequiredPasses(rule, value) ==
  IF IsNumber(value) \/ IsBool(value) THEN "pass"
  ELSE Bool2Outcome((rule.nullable /\ IsNone(value)) \/ Truthy(value))

\* The comparison of MinRule.passes (isMin) and MaxRule.passes (~isMin)
Bounded(isMin, n, bound) == IF isMin THEN n >= bound ELSE n <= bound

\* min and max failing the value on an unsupported value type instead of
\* raising
MinMaxPassesNoRaise(isMin, rule, value) ==
  LET ps == GetParams(rule) IN
  IF ps = <<>> THEN "IndexError"
  ELSE IF ps[1][1] # "s" THEN "TypeError"
  ELSE LET bound == ParseFloat(ps[1][2]) IN
       IF bound < 0 THEN "ValueError"
       ELSE CASE rule.value_type = "string" ->
                   Bool2Outcome(IsStr(value) /\ Bounded(isMin, 10 * PyLen(value), bound))
              [] rule.value_type = "list" ->
                   Bool2Outcome(IsList(value) /\ Bounded(isMin, 10 * PyLen(value), bound))
              [] rule.value_type \in {"numeric", "integer"} ->
                   Bool2Outcome(IsInt(value) /\ Bounded(isMin, NumTenths(value), bound))
              [] OTHER -> "fail"

\* MinRule.passes and MaxRule.passes
MinMaxPasses(isMin, rule, value) ==
  LET ps == GetParams(rule) IN
  IF ps = <<>> THEN "IndexError"
  ELSE IF ps[1][1] # "s" THEN "TypeError"
  ELSE LET bound == ParseFloat(ps[1][2]) IN
       IF bound < 0 THEN "ValueError"
       ELSE CASE rule.value_type = "string" ->
                   Bool2Outcome(IsStr(value) /\ Bounded(isMin, 10 * PyLen(value), bound))
              [] rule.value_type = "list" ->
                   Bool2Outcome(IsList(value) /\ Bounded(isMin, 10 * PyLen(value), bound))
              [] rule.value_type \in {"numeric", "integer"} ->
                   Bool2Outcome(IsInt(value) /\ Bounded(isMin, NumTenths(value), bound))
              [] OTHER -> "NotImplementedError"

\* InRule.passes (value in params)
InPasses(rule, value) ==
  LET ps == GetParams(rule) IN
  \E i \in 1..Len(ps) : ps[i][1] = "s" /\ value = PyStr(ps[i][2])

\* same comparing the value with the parameter injected last
SamePassesLatest(rule, value) ==
  LET ps == GetParams(rule) IN
  IF Len(ps) < 2 THEN "IndexError"
  ELSE LET other == ps[Len(ps)][2] IN
       IF other[1] = "pair" THEN Bool2Outcome(PyEq(value, other[2]))
       ELSE "ValueError"

\* same comparing the value with the name of the other field instead of
\* the value of the other field
SamePassesOnName(rule, value) ==
  LET ps == GetParams(rule) IN
  IF Len(ps) < 2 THEN "IndexError"
  ELSE Bool2Outcome(PyEq(value, PyStr(ps[1][2])))

\* SameRule.passes: other_value, other_value_exists = params[1]
SamePasses(rule, value) ==
  LET ps == GetParams(rule) IN
  IF Len(ps) < 2 THEN "IndexError"
  ELSE IF ps[2][1] = "s" THEN "ValueError"
  ELSE LET other == ps[2][2] IN
       IF other[1] = "pair" THEN Bool2Outcome(PyEq(value, other[2]))
       ELSE IF Len(other[2]) = 2 THEN "fail"
       ELSE "ValueError"

\* EmailRule.passes: regex_match(regex, value or '')
EmailPasses(value) ==
  IF ~Truthy(value) THEN "fail"
  ELSE IF IsStr(value) THEN Bool2Outcome(value[2] \in EmailStrings)
  ELSE "TypeError"

\* The item test of ListRule.passes for one list item
ListItemOk(itemType, item) ==
  CASE itemType = "dict"    -> IsDict(item)
    [] itemType = "string"  -> IsStr(item)
    [] itemType = "integer" -> IsInt(item)
    [] itemType = "numeric" -> IsNumber(item)

\* ListRule.passes
ListPasses(rule, value) ==
  LET ps == GetParams(rule) IN
  IF ~IsList(value) THEN "fail"
  ELSE IF ps = <<>> \/ ~Truthy(value) THEN "pass"
  ELSE IF ps[1][1] # "s" \/ ps[1][2] \notin ValueTypes THEN "ValueError"
  ELSE IF ps[1][2] = "list" THEN "NotImplementedError"
  ELSE Bool2Outcome(\A i \in 1..PyLen(value) : ListItemOk(ps[1][2], value[2][i]))

\* DateRule.passes
DatePasses(value) ==
  IF IsParseSpecialKey(value) THEN "fail" ELSE Bool2Outcome(ValueDay(value) >= 0)

\* The date comparisons with before accepting the day of the bound itself
DateComparePassesNotStrict(cls, rule, value) ==
  IF IsParseSpecialKey(value) THEN "fail"
  ELSE LET ps == GetParams(rule)
           v  == ValueDay(value)
           d  == IF ps = <<>> \/ ps[1][1] # "s" THEN -1 ELSE ParseDay(ps[1][2])
       IN  IF v < 0 \/ d < 0 THEN "fail"
           ELSE CASE cls = "After"         -> Bool2Outcome(v > d)
                  [] cls = "AfterOrEqual"  -> Bool2Outcome(v >= d)
                  [] cls = "Before"        -> Bool2Outcome(v <= d)
                  [] cls = "BeforeOrEqual" -> Bool2Outcome(v <= d)

\* AfterRule, AfterOrEqualRule, BeforeRule, BeforeOrEqualRule .passes
DateComparePasses(cls, rule, value) ==
  IF IsParseSpecialKey(value) THEN "fail"
  ELSE LET ps == GetParams(rule)
           v  == ValueDay(value)
           d  == IF ps = <<>> \/ ps[1][1] # "s" THEN -1 ELSE ParseDay(ps[1][2])
       IN  IF v < 0 \/ d < 0 THEN "fail"
           ELSE CASE cls = "After"         -> Bool2Outcome(v > d)
                  [] cls = "AfterOrEqual"  -> Bool2Outcome(v >= d)
                  [] cls = "Before"        -> Bool2Outcome(v < d)
                  [] cls = "BeforeOrEqual" -> Bool2Outcome(v <= d)

\* rule.passes(attribute, value, rule.get_params()), by the rule's class
Passes(rule, value) ==
  CASE rule.cls = "Required" -> RequiredPasses(rule, value)
    [] rule.cls = "Nullable" -> "pass"
    [] rule.cls = "String"   -> Bool2Outcome(IsStr(value))
    [] rule.cls = "Min"      -> MinMaxPasses(TRUE, rule, value)
    [] rule.cls = "Max"      -> MinMaxPasses(FALSE, rule, value)
    [] rule.cls = "Integer"  -> Bool2Outcome(IsInt(value))
    [] rule.cls = "Numeric"  -> Bool2Outcome(IsNumber(value))
    [] rule.cls = "Boolean"  -> Bool2Outcome(IsBool(value))
    [] rule.cls = "In"       -> Bool2Outcome(InPasses(rule, value))
    [] rule.cls = "NotIn"    -> Bool2Outcome(~InPasses(rule, value))
    [] rule.cls = "Same"     -> SamePasses(rule, value)
    [] rule.cls = "Email"    -> EmailPasses(value)
    [] rule.cls = "List"     -> ListPasses(rule, value)
    [] rule.cls = "Dict"     -> Bool2Outcome(IsDict(value))
    [] rule.cls = "Date"     -> DatePasses(value)
    [] OTHER                 -> DateComparePasses(rule.cls, rule, value)

\* The first string parameter, as the message templates print it
FirstParam(rule) == IF rule.params = <<>> THEN "" ELSE rule.params[1]

RECURSIVE JoinComma(_)
\* ','.join(params)
JoinComma(params) ==
  IF params = <<>> THEN ""
  ELSE IF Len(params) = 1 THEN params[1]
  ELSE params[1] \o "," \o JoinComma(Tail(params))

\* The message key of MinRule.message / MaxRule.message for a value type
MinMaxKey(word, vt) ==
  CASE vt = "string" -> "en." \o word \o ".string"
    [] vt = "list"   -> "en." \o word \o ".list"
    [] OTHER         -> "en." \o word \o ".numeric"

\* rule.message(attribute, value, rule.get_params()), by the rule's class
Message(rule, attribute) ==
  CASE rule.cls = "Required" -> Trans("en.required", attribute, "")
    [] rule.cls = "Nullable" -> Trans("", attribute, "")
    [] rule.cls = "String"   -> Trans("en.string", attribute, "")
    [] rule.cls = "Min"      -> Trans(MinMaxKey("min", rule.value_type), attribute, FirstParam(rule))
    [] rule.cls = "Max"      -> Trans(MinMaxKey("max", rule.value_type), attribute, FirstParam(rule))
    [] rule.cls = "Integer"  -> Trans("en.integer", attribute, "")
    [] rule.cls = "Numeric"  -> Trans("en.numeric", attribute, "")
    [] rule.cls = "Boolean"  -> Trans("en.boolean", attribute, "")
    [] rule.cls = "In"       -> Trans("en.in", attribute, "")
    [] rule.cls = "NotIn"    -> Trans("en.not_in", attribute, "")
    [] rule.cls = "Same"     -> Trans("en.same", attribute, FirstParam(rule))
    [] rule.cls = "Email"    -> Trans("en.email", attribute, "")
    [] rule.cls = "List"     -> IF rule.params = <<>> THEN Trans("en.list", attribute, "")
                                ELSE Trans("en.list_item_type", attribute, FirstParam(rule))
    [] rule.cls = "Dict"     -> Trans("en.dict", attribute, "")
    [] rule.cls = "Date"     -> IF rule.params = <<>> THEN Trans("en.date", attribute, "")
                                ELSE Trans("en.date_format", attribute, JoinComma(rule.params))
    [] rule.cls = "After"        -> Trans("en.after", attribute, FirstParam(rule))
    [] rule.cls = "AfterOrEqual" -> Trans("en.after_or_equal", attribute, FirstParam(rule))
    [] rule.cls = "Before"       -> Trans("en.before", attribute, FirstParam(rule))
    [] OTHER                     -> Trans("en.before_or_equal", attribute, FirstParam(rule))

\* Whether the loop of Ruleset.validate invokes the rule's predicate, and
\* what the predicate says
RuleOutcome(rule, value) == IF IsSkippable(rule, value) THEN "skip" ELSE Passes(rule, value)

RECURSIVE RunRules(_, _, _, _)
RECURSIVE RunRule(_, _, _, _, _)
\* One turn of the loop of Ruleset.validate, for rule i with outcome out:
\* a failing rule's message is appended, an exception ends the loop
RunRule(ruleset, i, attribute, value, out) ==
  CASE out \in {"skip", "pass"} -> RunRules(ruleset, i + 1, attribute, value)
    [] out = "fail" ->
         RunRules([ruleset EXCEPT !.errors = Append(@, Message(ruleset.rules[i], attribute))],
                  i + 1, attribute, value)
    [] OTHER -> [exc |-> out, ruleset |-> ruleset]

\* The loop of Ruleset.validate from rule i on
RunRules(ruleset, i, attribute, value) ==
  IF i > Len(ruleset.rules) THEN [exc |-> "none", ruleset |-> ruleset]
  ELSE RunRule(ruleset, i, attribute, value, RuleOutcome(ruleset.rules[i], value))

\* Ruleset.has_error
RulesetHasError(ruleset) == ruleset.errors # <<>>

\* The end of Ruleset.validate: raise ValidationError if the list holds errors
RaiseIfInvalid(r) ==
  IF r.exc = "none" /\ RulesetHasError(r.ruleset)
  THEN [exc |-> "ValidationError", ruleset |-> r.ruleset]
  ELSE r

\* Ruleset.validate: the ruleset afterwards and the exception raised, if any
RulesetValidate(ruleset, attribute, value) ==
  RaiseIfInvalid(RunRules(ruleset, 1, attribute, value))

(***************************************************************************)
(* The path resolver (portafilter/json_schema.py, JsonSchema).  Its result *)
(* is <<"pair", value, existed>> for a path without wildcard and           *)
(* <<"items", sequence of <<index, sub-result>> >> for a wildcard path.    *)
(***************************************************************************)
\* The decimal text of an array index
IndexText(i) == CASE i = 0 -> "0" [] i = 1 -> "1" [] i = 2 -> "2" [] i = 3 -> "3" [] OTHER -> "9"

HasWildcard(path) == \E i \in 1..Len(path) : path[i] = "*"

RECURSIVE Resolve(_, _)
Resolve(node, path) ==
  IF path = <<>> THEN <<"pair", node, TRUE>>
  ELSE IF Head(path) = "*" THEN
    IF IsList(node)
    THEN <<"items", [i \in 1..PyLen(node) |-> <<i - 1, Resolve(node[2][i], Tail(path))>>]>>
    ELSE <<"items", <<>> >>
  ELSE IF IsDict(node) /\ Head(path) \in DOMAIN node[2]
    THEN Resolve(node[2][Head(path)], Tail(path))
  ELSE IF IsList(node) /\ \E i \in 1..PyLen(node) : IndexText(i - 1) = Head(path)
    THEN Resolve(node[2][CHOOSE i \in 1..PyLen(node) : IndexText(i - 1) = Head(path)], Tail(path))
  ELSE IF HasWildcard(path) THEN <<"items", <<>> >>
  ELSE <<"pair", None, FALSE>>

\* JsonSchema(data).get_value_details(attribute)
GetValueDetails(data, attribute) == Resolve(data, attribute)

\* The path named by a rule parameter (a single segment in this model)
PathOfText(text) == <<text>>

(***************************************************************************)
(* Validator.                                                              *)
(***************************************************************************)
\* The wildcard replaced by the index of the first element for every element
ReplaceFirstStarByZero(attribute, index) ==
  IF \E i \in 2..Len(attribute) : attribute[i] = "*"
  THEN LET k == CHOOSE i \in 2..Len(attribute) :
                  attribute[i] = "*" /\ \A j \in 2..(i - 1) : attribute[j] # "*"
       IN  [attribute EXCEPT ![k] = IndexText(0)]
  ELSE attribute

\* attribute.replace('.*', f'.{index}', 1): the first '*' that follows a dot
ReplaceFirstStar(attribute, index) ==
  IF \E i \in 2..Len(attribute) : attribute[i] = "*"
  THEN LET k == CHOOSE i \in 2..Len(attribute) :
                  attribute[i] = "*" /\ \A j \in 2..(i - 1) : attribute[j] # "*"
       IN  [attribute EXCEPT ![k] = IndexText(index)]
  ELSE attribute

RECURSIVE ExtractListDetails(_, _)
\* Validator._extract_list_details: <<attribute, value details>>
ExtractListDetails(attribute, listDetails) ==
  LET index == listDetails[1]
      value == listDetails[2]
      attr  == ReplaceFirstStar(attribute, index)
  IN  IF value[1] = "items" /\ value[2] # <<>>
      THEN ExtractListDetails(attr, value[2][1])
      ELSE <<attr, value>>

\* value.get(dict_parameter), None when it raises
DictGet(value, key) ==
  IF IsDict(value) /\ key \in DOMAIN value[2] THEN value[2][key] ELSE None

\* The extra rules given the value of the field instead of the value under
\* the sub-key
GetExtraRulesOnParent(attribute, value, ruleset) ==
  IF GetValueType(ruleset) = "dict"
  THEN LET ps == GetRule(ruleset, "dict").params IN
       [i \in 1..Len(ps) |->
          [attribute |-> Append(attribute, ps[i]),
           ruleset   |-> NewRuleset(<<"required">>).ruleset,
           value     |-> value]]
  ELSE <<>>

\* Validator._get_extra_rules: a sequence of [attribute, ruleset, value]
GetExtraRules(attribute, value, ruleset) ==
  IF GetValueType(ruleset) = "dict"
  THEN LET ps == GetRule(ruleset, "dict").params IN
       [i \in 1..Len(ps) |->
          [attribute |-> Append(attribute, ps[i]),
           ruleset   |-> NewRuleset(<<"required">>).ruleset,
           value     |-> DictGet(value, ps[i])]]
  ELSE <<>>

\* Rule.add_param on the rule called name of a ruleset
AddParam(ruleset, name, details) ==
  [ruleset EXCEPT !.rules =
     [i \in 1..Len(ruleset.rules) |->
        IF ruleset.rules[i].name = name
        THEN [ruleset.rules[i] EXCEPT !.injected = Append(@, details)]
        ELSE ruleset.rules[i]]]

\* Validator._modify_dependent_rules: [exc, ruleset]
ModifyDependentRules(ruleset, data) ==
  IF HasRule(ruleset, "same")
  THEN LET ps == GetParams(GetRule(ruleset, "same")) IN
       IF ps = <<>> THEN [exc |-> "IndexError", ruleset |-> ruleset]
       ELSE IF ps[1][1] # "s" THEN [exc |-> "TypeError", ruleset |-> ruleset]
       ELSE [exc |-> "none",
             ruleset |-> AddParam(ruleset, "same", GetValueDetails(data, PathOfText(ps[1][2])))]
  ELSE [exc |-> "none", ruleset |-> ruleset]

\* Validator.has_error
HasError(errors) == DOMAIN errors # {}

\* self._errors[key] = entry
SetError(errors, key, entry) ==
  [k \in DOMAIN errors \cup {key} |-> IF k = key THEN entry ELSE errors[k]]

\* The messages a Ruleset.validate call appended to the error list
Appended(before, after) == SubSeq(after.errors, Len(before.errors) + 1, Len(after.errors))

\* One entry of the evaluation record of a validate() call
LogEntry(kind, decl, attribute, value, before, r) ==
  [kind |-> kind, decl |-> decl, attribute |-> attribute, value |-> value,
   exc |-> r.exc, msgs |-> Appended(before, r.ruleset)]

\* Lines 54 and 56-57 of Validator.validate: what the validation r of one
\* element's clone leaves in the state of the call
ItemDone(st, decl, attribute, value, clone, r) ==
  CASE r.exc = "none" ->
         [st EXCEPT !.log = Append(@, LogEntry("item", decl, attribute, value, clone, r)),
                    !.extra = @ \o GetExtraRules(attribute, value, r.ruleset)]
    [] r.exc = "ValidationError" ->
         [st EXCEPT !.log = Append(@, LogEntry("item", decl, attribute, value, clone, r)),
                    !.errors = SetError(@, attribute, [ref |-> 0, val |-> r.ruleset.errors])]
    [] OTHER ->
         [st EXCEPT !.log = Append(@, LogEntry("item", decl, attribute, value, clone, r)),
                    !.exc = r.exc]

\* Lines 40-50 of Validator.validate: one element, ex its extracted details;
\* the ruleset is deep-copied, and unpacking anything but a (value, existed)
\* pair raises ValueError
ValidateItem(st, decl, ruleset, ex) ==
  IF ex[2][1] # "pair" THEN [st EXCEPT !.exc = "ValueError"]
  ELSE ItemDone(st, decl, ex[1], ex[2][2], ruleset, RulesetValidate(ruleset, ex[1], ex[2][2]))

RECURSIVE ValidateItems(_, _, _, _, _)
\* The loop of Validator.validate over the elements of a wildcard field
ValidateItems(st, decl, ruleset, items, i) ==
  IF i > Len(items) \/ st.exc # "none" THEN st
  ELSE ValidateItems(
         ValidateItem(st, decl, ruleset, ExtractListDetails(st.rules[decl].attribute, items[i])),
         decl, ruleset, items, i + 1)

\* Lines 62-69 of Validator.validate: what the validation r of a field's own
\* ruleset leaves in the state of the call
FieldDone(st, decl, value, before, r) ==
  CASE r.exc = "none" ->
         [st EXCEPT !.rules[decl].ruleset = r.ruleset,
                    !.log = Append(@, LogEntry("field", decl, st.rules[decl].attribute, value, before, r)),
                    !.extra = @ \o GetExtraRules(st.rules[decl].attribute, value, r.ruleset)]
    [] r.exc = "ValidationError" ->
         [st EXCEPT !.rules[decl].ruleset = r.ruleset,
                    !.log = Append(@, LogEntry("field", decl, st.rules[decl].attribute, value, before, r)),
                    !.errors = SetError(@, st.rules[decl].attribute, [ref |-> decl, val |-> <<>>])]
    [] OTHER ->
         [st EXCEPT !.rules[decl].ruleset = r.ruleset,
                    !.log = Append(@, LogEntry("field", decl, st.rules[decl].attribute, value, before, r)),
                    !.exc = r.exc]

\* Lines 37-62 of Validator.validate: the resolved details decide between
\* the loop over the elements and the validation of the field itself
FieldResolved(st, decl, details) ==
  IF details[1] = "items"
  THEN ValidateItems(st, decl, st.rules[decl].ruleset, details[2], 1)
  ELSE FieldDone(st, decl, details[2], st.rules[decl].ruleset,
                 RulesetValidate(st.rules[decl].ruleset, st.rules[decl].attribute, details[2]))

\* Lines 33-35 of Validator.validate: the rewritten ruleset m replaces the
\* field's ruleset (the rules are mutated in place), then the path is resolved
FieldModified(st, data, decl, m) ==
  IF m.exc # "none" THEN [st EXCEPT !.exc = m.exc]
  ELSE FieldResolved([st EXCEPT !.rules[decl].ruleset = m.ruleset], decl,
                     GetValueDetails(data, st.rules[decl].attribute))

\* One turn of the main loop of Validator.validate (lines 30-69) for the
\* declared field number decl
ValidateField(st, data, decl) ==
  FieldModified(st, data, decl, ModifyDependentRules(st.rules[decl].ruleset, data))

RECURSIVE ValidateFields(_, _, _)
\* The main loop of Validator.validate from field decl on
ValidateFields(st, data, decl) ==
  IF decl > Len(st.rules) \/ st.exc # "none" THEN st
  ELSE ValidateFields(ValidateField(st, data, decl), data, decl + 1)

\* Lines 73-77 of Validator.validate: what the validation r of one extra
\* rule leaves in the state of the call
ExtraDone(st, e, r) ==
  IF r.exc = "ValidationError"
  THEN [st EXCEPT !.log = Append(@, LogEntry("extra", 0, e.attribute, e.value, e.ruleset, r)),
                  !.errors = SetError(@, e.attribute, [ref |-> 0, val |-> r.ruleset.errors])]
  ELSE [st EXCEPT !.log = Append(@, LogEntry("extra", 0, e.attribute, e.value, e.ruleset, r))]

RECURSIVE ValidateExtra(_, _)
\* The loop of Validator.validate over the extra rules (lines 72-77)
ValidateExtra(st, i) ==
  IF i > Len(st.extra) THEN st
  ELSE ValidateExtra(
         ExtraDone(st, st.extra[i],
                   RulesetValidate(st.extra[i].ruleset, st.extra[i].attribute, st.extra[i].value)),
         i + 1)

\* Lines 79-80 of Validator.validate
RaiseIfErrors(st) ==
  IF HasError(st.errors) THEN [st EXCEPT !.exc = "ValidationError"] ELSE st

\* Lines 71-80 of Validator.validate, reached when the main loop raised nothing
AfterMainLoop(st) == IF st.exc # "none" THEN st ELSE RaiseIfErrors(ValidateExtra(st, 1))

\* Validator.validate on the rule list and the error mapping of a Validator:
\* the state of the call when it returns or raises
Validate(data, vrules, verrors) ==
  AfterMainLoop(ValidateFields(
    [rules |-> vrules, errors |-> verrors, extra |-> <<>>, log |-> <<>>, exc |-> "none"],
    data, 1))

(***************************************************************************)
(* The inputs: rule mappings (sequences of <<attribute, expression>>) and  *)
(* the data they are run against.                                          *)
(***************************************************************************)
\* A map of the given keys to the given values; a key mapped to "absent" is left out.
Absent == <<"absent">>
MapOf(f) == PyDict([k \in {q \in DOMAIN f : f[q] # Absent} |-> f[k]])

\* All sequences over elems of length at most n
RECURSIVE SeqsUpTo(_, _)
SeqsUpTo(elems, n) ==
  IF n = 0 THEN {<<>>}
  ELSE LET shorter == SeqsUpTo(elems, n - 1) IN
       shorter \cup {Append(q, e) : q \in shorter, e \in elems}

\* items.*.price: required|numeric
WildcardRules == << << <<"items", "*", "price">>, <<"required", "|", "numeric">> >> >>
WildcardElems ==
  {MapOf([price |-> PyInt(1)]), MapOf([price |-> PyStr("bad")]), MapOf([price |-> Absent])}
WildcardData ==
  {MapOf([items |-> PyList(q)]) : q \in SeqsUpTo(WildcardElems, MaxItems)}

\* person: dict:name,age, alone or with rules declared on person.age as well
DictRules == << << <<"person">>, <<"dict", ":", "name", ",", "age">> >> >>
DictChildRules ==
  DictRules \o << << <<"person", "age">>, <<"string", "|", "min", ":", "1">> >> >>
DictData ==
  {MapOf([person |-> MapOf([name |-> n, age |-> a])]) :
     n \in {Absent, PyStr("x"), PyStr(""), PyInt(0)},
     a \in {Absent, PyInt(5), None, PyStr("")}}
  \cup {MapOf([person |-> PyStr("x")])}

\* b: same:a
SameRules == << << <<"b">>, <<"same", ":", "a">> >> >>
SameData ==
  {MapOf([a |-> x, b |-> y]) :
     x \in {Absent, None, PyStr("x"), PyStr("y"), PyInt(1)},
     y \in {Absent, None, PyStr("x"), PyStr("y"), PyInt(1), PyFloat(10), PyBool(TRUE)}}

\* f: nullable with one more declaration, in either order
OtherDeclarations ==
  { <<"required">>, <<"string">>, <<"integer">>, <<"numeric">>, <<"boolean">>,
    <<"list">>, <<"list", ":", "string">>, <<"dict">>, <<"dict", ":", "name">>,
    <<"min", ":", "3">>, <<"max", ":", "3">>, <<"dict", "|", "min", ":", "1">>,
    <<"required", "|", "dict", "|", "max", ":", "1">>,
    <<"in", ":", "a", ",", "b">>, <<"not_in", ":", "a", ",", "b">>,
    <<"same", ":", "g">>, <<"email">>, <<"date">>, <<"before", ":", "tomorrow">>,
    <<"after_or_equal", ":", "2022-12-23">> }
NullableRules ==
  { << << <<"f">>, <<"nullable", "|">> \o d >> >> : d \in OtherDeclarations }
  \cup { << << <<"f">>, d \o <<"|", "nullable">> >> >> : d \in OtherDeclarations }
NullableData == {MapOf([f |-> None]), MapOf([f |-> Absent])}

\* f: a type with min and max
TypeWords == {"string", "list", "integer", "numeric", "dict"}
MinMaxRules ==
  { << << <<"f">>, <<t, "|", "min", ":", "3">> >> >> : t \in TypeWords }
  \cup { << << <<"f">>, <<t, "|", "max", ":", "3">> >> >> : t \in TypeWords }
  \cup { << << <<"f">>, <<"required", "|", "dict", "|", "min", ":", "3">> >> >>,
         << << <<"f">>, <<"min", ":", "3", "|", "max", ":", "3">> >> >> }
MinMaxData ==
  {MapOf([f |-> v]) :
     v \in {Absent, None, PyStr("ab"), PyStr("abc"), PyStr("abcd"), PyInt(2), PyInt(3),
            PyInt(5), PyFloat(25), PyFloat(50),
            PyList(<<PyInt(1), PyInt(2)>>), PyList(<<None, None, None, None>>),
            MapOf([name |-> PyStr("x")])}}

\* name and age, each with several rules
MultiRules ==
  << << <<"name">>, <<"required", "|", "string", "|", "min", ":", "3">> >>,
     << <<"age">>, <<"required", "|", "integer", "|", "max", ":", "3">> >> >>
MultiData ==
  {MapOf([name |-> n, age |-> a]) :
     n \in {Absent, PyStr("ab"), PyStr("abc"), PyInt(5)},
     a \in {Absent, PyInt(2), PyInt(5), PyStr("x")}}

\* expressions with tokens that name no rule, or name nothing
OddExpressions ==
  { <<"unique">>, <<"required", "|", "unique", ":", "x">>, <<"str", "|", "required">>,
    <<>>, <<"required", "|">>, <<"|", "required">>, <<"required", "|", "|", "string">>,
    <<"required", "|", "string", "|", "string">> }
OddRules == { << << <<"f">>, e >> >> : e \in OddExpressions }
OddData == {MapOf([f |-> PyStr("abc")]), MapOf([f |-> Absent])}

\* date: required|before:D, D a literal date or a reserved keyword
DateBounds == {"2022-12-22", "2022-12-23", "2022-12-24", "tomorrow", "yesterday"}
BeforeRules ==
  { << << <<"date">>, <<"required", "|", "before", ":", d>> >> >> : d \in DateBounds }
BeforeData == {MapOf([date |-> PyStr(v)]) : v \in {"2022-12-22", "2022-12-23", "2022-12-24"}}

\* f: required, alone or with nullable
RequiredRules ==
  { << << <<"f">>, <<"required">> >> >>,
    << << <<"f">>, <<"required", "|", "nullable">> >> >> }
RequiredData ==
  {MapOf([f |-> v]) :
     v \in {Absent, None, PyStr(""), PyStr("x"), PyInt(0), PyInt(5), PyFloat(0),
            PyBool(FALSE), PyBool(TRUE), PyList(<<>>), PyList(<<PyInt(1)>>),
            EmptyDict, MapOf([name |-> PyStr("x")])}}

\* a.*.b.*.c: required
NestedRules == << << <<"a", "*", "b", "*", "c">>, <<"required">> >> >>
NestedInner ==
  { <<>>, <<MapOf([c |-> PyInt(1)])>>, <<EmptyDict>>,
    <<MapOf([c |-> PyInt(1)]), EmptyDict>>, <<EmptyDict, MapOf([c |-> PyInt(1)])>> }
NestedData ==
  {MapOf([a |-> PyList(q)]) :
     q \in SeqsUpTo({MapOf([b |-> PyList(inner)]) : inner \in NestedInner}, MaxItems)}

\* f: two type rules in either order, with min or a dict parameter
TypeOrderRules ==
  { << << <<"f">>, e >> >> :
      e \in { <<"min", ":", "3", "|", "integer", "|", "string">>,
              <<"string", "|", "integer", "|", "min", ":", "3">>,
              <<"list", "|", "string", "|", "min", ":", "3">>,
              <<"numeric", "|", "list", "|", "max", ":", "3">>,
              <<"required", "|", "max", ":", "3">>,
              <<"dict", ":", "name", "|", "list">>,
              <<"list", "|", "dict", ":", "name">> } }
TypeOrderData ==
  {MapOf([f |-> v]) :
     v \in {Absent, PyStr("ab"), PyStr("abcd"), PyInt(2), PyInt(5),
            PyList(<<PyInt(1), PyInt(2)>>), PyList(<<None, None, None, None>>),
            MapOf([name |-> PyStr("x")])}}

\* f: rule names written with a capital first letter
CaseRules ==
  { << << <<"f">>, <<"Required", "|", "String", "|", "Min", ":", "3">> >> >>,
    << << <<"f">>, <<"Required", "|", "Integer", "|", "Min", ":", "3">> >> >> }
CaseData == {MapOf([f |-> v]) : v \in {Absent, PyStr("ab"), PyStr("abc"), PyInt(2), PyInt(5)}}

Scenarios ==
  ({WildcardRules} \X WildcardData) \cup ({DictRules, DictChildRules} \X DictData)
  \cup ({SameRules} \X SameData) \cup (NullableRules \X NullableData)
  \cup (MinMaxRules \X MinMaxData) \cup ({MultiRules} \X MultiData)
  \cup (OddRules \X OddData) \cup (BeforeRules \X BeforeData)
  \cup (RequiredRules \X RequiredData) \cup ({NestedRules} \X NestedData)
  \cup (TypeOrderRules \X TypeOrderData) \cup (CaseRules \X CaseData)

\* The values a caller may put under a top-level key of the data afterwards
MutValues ==
  {None, PyStr("x"), PyDict([name |-> PyStr("x"), age |-> PyInt(1)])}

(***************************************************************************)
(* The state machine: one Validator, from construction on.                 *)
(***************************************************************************)
VARIABLES
  phase,    \* "new" before Validator.__init__, then "ready", or "failed" when it raised
  data,     \* the input data (Validator._data refers to the caller's object)
  rulesIn,  \* the rules mapping given to the constructor
  rules,    \* Validator._rules: the RuleList, a sequence of [attribute, ruleset]
  errors,   \* Validator._errors: attribute -> a declared ruleset's error list (ref) or a list (val)
  ctorExc,  \* the exception Validator.__init__ raised
  calls,    \* what each validate()/passes()/fails() call did and left behind
  mutated   \* whether the caller changed the data after construction

vars == <<phase, data, rulesIn, rules, errors, ctorExc, calls, mutated>>

NoErrors == [k \in {} |-> <<>>]

\* Validator.errors(): the mapping as a caller reads it
ErrorsView(vrules, verrors) ==
  [k \in DOMAIN verrors |->
     IF verrors[k].ref = 0 THEN verrors[k].val ELSE vrules[verrors[k].ref].ruleset.errors]

Init ==
  /\ \E sc \in Scenarios : rulesIn = sc[1] /\ data = sc[2]
  /\ phase = "new"
  /\ rules = <<>>
  /\ errors = NoErrors
  /\ ctorExc = "none"
  /\ calls = <<>>
  /\ mutated = FALSE

\* Validator.__init__
Constructed(p) ==
  IF p.exc = "none"
  THEN phase' = "ready" /\ rules' = p.rules /\ ctorExc' = "none"
  ELSE phase' = "failed" /\ rules' = <<>> /\ ctorExc' = p.exc

Construct ==
  /\ phase = "new"
  /\ Constructed(ParseRuleList(rulesIn, <<>>))
  /\ errors' = NoErrors
  /\ UNCHANGED <<data, rulesIn, calls, mutated>>

\* The exception of validate() that passes() and fails() let through
Swallow(exc) == IF exc = "ValidationError" THEN "none" ELSE exc

\* passes() returning has_error() as it is, without the negation
PassesResultNotNegated(hasError) == IF hasError THEN "True" ELSE "False"

\* The value passes() returns from has_error(): not self.has_error()
PassesResult(hasError) == IF hasError THEN "False" ELSE "True"

\* The value fails() returns from has_error(): self.has_error()
FailsResult(hasError) == IF hasError THEN "True" ELSE "False"

\* What a call leaves in the record: the operation, the exception that
\* reached the caller, the value returned ("True", "False", or "none" when the
\* call returns nothing), the exception validate() raised, the evaluations
\* made, errors() afterwards, and the data the call ran on
CallRecord(op, st) ==
  [op  |-> op,
   exc |-> IF op = "validate" THEN st.exc ELSE Swallow(st.exc),
   ret |-> IF op = "validate" \/ Swallow(st.exc) # "none" THEN "none"
           ELSE IF op = "passes" THEN PassesResult(HasError(st.errors))
           ELSE FailsResult(HasError(st.errors)),
   raised |-> st.exc, log |-> st.log,
   view |-> ErrorsView(st.rules, st.errors), data |-> data, mutated |-> mutated]

\* The state a call op leaves, st being the state of its validate()
Returned(op, st) ==
  /\ rules' = st.rules
  /\ errors' = st.errors
  /\ calls' = Append(calls, CallRecord(op, st))

\* Validator.validate()
CallValidate ==
  /\ phase = "ready" /\ Len(calls) < MaxCalls
  /\ Returned("validate", Validate(data, rules, errors))
  /\ UNCHANGED <<phase, data, rulesIn, ctorExc, mutated>>

\* Validator.passes()
CallPasses ==
  /\ phase = "ready" /\ Len(calls) < MaxCalls
  /\ Returned("passes", Validate(data, rules, errors))
  /\ UNCHANGED <<phase, data, rulesIn, ctorExc, mutated>>

\* Validator.fails()
CallFails ==
  /\ phase = "ready" /\ Len(calls) < MaxCalls
  /\ Returned("fails", Validate(data, rules, errors))
  /\ UNCHANGED <<phase, data, rulesIn, ctorExc, mutated>>

\* The top-level keys the rules look at
TopKeys ==
  {rulesIn[i][1][1] : i \in 1..Len(rulesIn)} \cup
  {r.params[1] : r \in {q \in UNION {{rules[i].ruleset.rules[j] : j \in 1..Len(rules[i].ruleset.rules)} :
                                       i \in 1..Len(rules)} : q.name = "same" /\ q.params # <<>>}}

\* The caller changes the data the Validator refers to (Validator.__init__
\* keeps a reference, not a copy)
MutateData ==
  /\ phase = "ready" /\ ~mutated /\ Len(calls) < MaxCalls
  /\ \E k \in TopKeys, v \in MutValues :
       /\ data' = PyDict([q \in DOMAIN data[2] \cup {k} |-> IF q = k THEN v ELSE data[2][q]])
       /\ data' # data
  /\ mutated' = TRUE
  /\ UNCHANGED <<phase, rulesIn, rules, errors, ctorExc, calls>>

Next == Construct \/ CallValidate \/ CallPasses \/ CallFails \/ MutateData

Spec == Init /\ [][Next]_vars

(***************************************************************************)
(* Properties.                                                             *)
(***************************************************************************)
\* The calls that completed without a configuration error
Completed(c) == c.raised \in {"none", "ValidationError"}

\* The value of a top-level key of the data, None when the key is missing
Field(d, key) == IF key \in DOMAIN d[2] THEN d[2][key] ELSE None

\* C1: on a Validator whose data was not changed, whenever passes() and
\* fails() both returned a value, the two values are complements, in either
\* order of the calls and for every pair of calls.
C1_PassesFailsComplement ==
  \A i, j \in 1..Len(calls) :
    ( /\ calls[i].op = "passes" /\ calls[j].op = "fails"
      /\ calls[i].ret # "none" /\ calls[j].ret # "none"
      /\ ~calls[i].mutated /\ ~calls[j].mutated )
    => (calls[i].ret = "True") = (calls[j].ret = "False")

\* C1 witness: fails() returned True and a later passes() on the same
\* Validator and unchanged data returned False
C1_Witness ==
  /\ Len(calls) = 2 /\ ~calls[2].mutated
  /\ calls[1].op = "fails" /\ calls[1].ret = "True"
  /\ calls[2].op = "passes" /\ calls[2].ret = "False"

\* The messages required|numeric must give for one value of items.<i>.price
PriceMessages(attribute, v) ==
  CASE Tag(v) \in {"int", "float", "bool"} -> <<>>
    [] Tag(v) = "none" -> <<Trans("en.required", attribute, ""), Trans("en.numeric", attribute, "")>>
    [] OTHER -> <<Trans("en.numeric", attribute, "")>>

\* C2: with items.*.price: required|numeric, after a call on unchanged data
\* errors() has the key items.<i>.price exactly for the elements i that fail
\* a rule, the list under it holds the messages of element i and of no other
\* element, and errors() has no other key.
C2_WildcardPerElement ==
  \A n \in 1..Len(calls) :
    (rulesIn = WildcardRules /\ Completed(calls[n]) /\ ~calls[n].mutated) =>
      LET items == Field(calls[n].data, "items")[2]
          key(i) == <<"items", IndexText(i - 1), "price">>
      IN  /\ \A i \in 1..Len(items) :
               /\ key(i) \in DOMAIN calls[n].view
                    <=> PriceMessages(key(i), Field(items[i], "price")) # <<>>
               /\ key(i) \in DOMAIN calls[n].view
                    => calls[n].view[key(i)] = PriceMessages(key(i), Field(items[i], "price"))
          /\ DOMAIN calls[n].view \subseteq {key(i) : i \in 1..Len(items)}

\* C2 witness: [{price: 1}, {price: 'bad'}] gives exactly items.1.price
C2_Witness ==
  /\ rulesIn = WildcardRules /\ Len(calls) = 1
  /\ calls[1].data = MapOf([items |-> PyList(<<MapOf([price |-> PyInt(1)]), MapOf([price |-> PyStr("bad")])>>)])
  /\ DOMAIN calls[1].view = {<<"items", "1", "price">>}
  /\ calls[1].view[<<"items", "1", "price">>] = <<Trans("en.numeric", <<"items", "1", "price">>, "")>>

\* A value that the required rule of a field without nullable rejects
FailsRequired(v) ==
  \/ Tag(v) = "none"
  \/ Tag(v) = "str" /\ v[2] = ""
  \/ Tag(v) = "list" /\ v[2] = <<>>
  \/ Tag(v) = "dict" /\ DOMAIN v[2] = {}

\* The elements of a sequence
Range(q) == {q[i] : i \in 1..Len(q)}

\* C3: with person: dict:name,age and a map as the value of person, after a
\* call on unchanged data person has no key in errors(), and person.<k> has a
\* key holding the required message exactly for the sub-keys k whose value
\* fails the required rule; with no rules declared on the sub-keys that list
\* is the required message alone.
C3_DictSubKeys ==
  \A n \in 1..Len(calls) :
    ( /\ rulesIn \in {DictRules, DictChildRules}
      /\ Completed(calls[n]) /\ ~calls[n].mutated
      /\ IsDict(Field(calls[n].data, "person")) ) =>
      /\ <<"person">> \notin DOMAIN calls[n].view
      /\ \A k \in {"name", "age"} :
           LET key == <<"person", k>>
               v   == Field(Field(calls[n].data, "person"), k)
           IN  /\ ( /\ key \in DOMAIN calls[n].view
                    /\ Trans("en.required", key, "") \in Range(calls[n].view[key]) )
                    <=> FailsRequired(v)
               /\ (rulesIn = DictRules /\ key \in DOMAIN calls[n].view)
                    => calls[n].view[key] = <<Trans("en.required", key, "")>>
               /\ (rulesIn = DictRules /\ ~FailsRequired(v)) => key \notin DOMAIN calls[n].view

\* C3 witness: {person: {name: 'x'}} gives an error at person.age only
C3_Witness ==
  /\ rulesIn = DictRules /\ Len(calls) = 1
  /\ calls[1].data = MapOf([person |-> MapOf([name |-> PyStr("x")])])
  /\ DOMAIN calls[1].view = {<<"person", "age">>}

\* C4: with b: same:a and a value of b that is not None, after a call on
\* unchanged data b passes exactly when its value equals the value of a in
\* the data, and when it fails its error list holds the same-message that
\* names b and the other field a and nothing else.
C4_SameOtherField ==
  \A n \in 1..Len(calls) :
    ( /\ rulesIn = SameRules /\ Completed(calls[n]) /\ ~calls[n].mutated
      /\ ~IsNone(Field(calls[n].data, "b")) ) =>
      /\ <<"b">> \notin DOMAIN calls[n].view
           <=> PyEq(Field(calls[n].data, "b"), Field(calls[n].data, "a"))
      /\ <<"b">> \in DOMAIN calls[n].view
           => Range(calls[n].view[<<"b">>]) = {Trans("en.same", <<"b">>, "a")}

\* C4 witness: {a: 'x', b: 'y'} fails with the message naming a, and
\* {a: 'x', b: 'x'} passes
C4_Witness ==
  /\ rulesIn = SameRules /\ Len(calls) = 1 /\ calls[1].op = "fails"
  /\ calls[1].data = MapOf([a |-> PyStr("x"), b |-> PyStr("y")])
  /\ calls[1].ret = "True"
  /\ calls[1].view = [k \in {<<"b">>} |-> <<Trans("en.same", <<"b">>, "a")>>]

\* C4 witness of the passing case
C4_WitnessPass ==
  /\ rulesIn = SameRules /\ Len(calls) = 1 /\ calls[1].op = "passes"
  /\ calls[1].data = MapOf([a |-> PyStr("x"), b |-> PyStr("x")])
  /\ calls[1].ret = "True"

\* C5 (as claimed): with nullable declared on the only field f and None as
\* its value (given as None or left out), every call on unchanged data
\* returns normally, passes, and leaves errors() empty.
C5_NullableNoneNoErrors ==
  \A n \in 1..Len(calls) :
    ( /\ rulesIn \in NullableRules /\ ~calls[n].mutated
      /\ IsNone(Field(calls[n].data, "f")) ) =>
      /\ calls[n].raised = "none"
      /\ DOMAIN calls[n].view = {}
      /\ calls[n].op = "passes" => calls[n].ret = "True"
      /\ calls[n].op = "fails" => calls[n].ret = "False"

\* C6 (as claimed): a second call on the same Validator and unchanged data
\* leaves errors() as the first call left it.
C6_SecondCallSameErrors ==
  \A n \in 2..Len(calls) :
    (Completed(calls[n - 1]) /\ Completed(calls[n]) /\ ~calls[n].mutated)
    => calls[n].view = calls[n - 1].view

\* The concrete attributes a declared attribute addresses in the data (the
\* wildcard, when there is one, is the second segment)
Addressed(attribute, d) ==
  IF HasWildcard(attribute)
  THEN IF IsList(Field(d, attribute[1]))
       THEN {<<attribute[1], IndexText(i - 1)>> \o SubSeq(attribute, 3, Len(attribute)) :
               i \in 1..PyLen(Field(d, attribute[1]))}
       ELSE {}
  ELSE {attribute}

\* The sub-keys for which a passed evaluation synthesizes an extra rule
SubKeys(ruleset) ==
  IF GetValueType(ruleset) = "dict" THEN Range(GetRule(ruleset, "dict").params) ELSE {}

\* C7 (as claimed): a call that meets no configuration error evaluates every
\* declared field, every element of a wildcard field and every synthesized
\* extra rule, whatever failed before, and records each failure in errors();
\* validate() raises ValidationError at its end exactly when a field or an
\* extra rule failed in the call; passes() and fails() never raise
\* ValidationError.
C7_NoShortCircuit ==
  \A n \in 1..Len(calls) :
    /\ calls[n].op \in {"passes", "fails"} => calls[n].exc # "ValidationError"
    /\ calls[n].op = "validate" => calls[n].exc = calls[n].raised
    /\ Completed(calls[n]) =>
         /\ \A d \in 1..Len(rules) :
              \A a \in Addressed(rules[d].attribute, calls[n].data) :
                \E e \in Range(calls[n].log) :
                  e.decl = d /\ e.attribute = a /\ e.kind \in {"field", "item"}
         /\ \A e \in Range(calls[n].log) :
              (e.kind # "extra" /\ e.exc = "none") =>
                \A k \in SubKeys(rules[e.decl].ruleset) :
                  \E x \in Range(calls[n].log) :
                    x.kind = "extra" /\ x.attribute = Append(e.attribute, k)
         /\ \A e \in Range(calls[n].log) :
              e.exc = "ValidationError" => e.attribute \in DOMAIN calls[n].view
         /\ calls[n].raised = "ValidationError"
              <=> \E e \in Range(calls[n].log) : e.exc = "ValidationError"

RECURSIVE FailingMessages(_, _, _)
\* The messages of the rules that are evaluated on a value and fail, in the
\* order of the rules
FailingMessages(rs, attribute, value) ==
  IF rs = <<>> THEN <<>>
  ELSE (IF RuleOutcome(Head(rs), value) = "fail" THEN <<Message(Head(rs), attribute)>> ELSE <<>>)
       \o FailingMessages(Tail(rs), attribute, value)

\* C8 (as claimed): after the first call on a fresh Validator, for every
\* declared field and every element of a wildcard field, the list under its
\* concrete path holds one message for each of its rules that was evaluated
\* and failed, in the order of the rules, and the path has no key exactly
\* when none of its rules failed.
C8_OneMessagePerFailingRule ==
  (Len(calls) >= 1 /\ Completed(calls[1]) /\ ~calls[1].mutated) =>
    \A e \in Range(calls[1].log) :
      e.kind \in {"field", "item"} =>
        LET expected == FailingMessages(rules[e.decl].ruleset.rules, e.attribute, e.value) IN
        /\ e.attribute \in DOMAIN calls[1].view <=> expected # <<>>
        /\ e.attribute \in DOMAIN calls[1].view => calls[1].view[e.attribute] = expected

\* The rule names of the built-in registry
BuiltInNames ==
  {"required", "nullable", "string", "integer", "numeric", "boolean", "min", "max",
   "in", "not_in", "same", "email", "list", "dict", "date", "after", "after_or_equal",
   "before", "before_or_equal"}

\* The names of the tokens of the expressions of a rules mapping
TokenNames(rin) ==
  UNION { {ParseToken(t).name : t \in Range(SplitOn(rin[i][2], "|"))} : i \in 1..Len(rin) }

\* C9 (as claimed): when a token of a rule expression, an empty token
\* included, names no built-in rule, construction fails with InvalidRule and
\* no call validates anything.
C9_UnregisteredNameIsInvalidRule ==
  (phase # "new" /\ ~(TokenNames(rulesIn) \subseteq BuiltInNames)) =>
    (phase = "failed" /\ ctorExc = "InvalidRule" /\ calls = <<>>)

\* A ruleset whose value type is dict and that declares min or max
DictWithMinMax(ruleset) ==
  GetValueType(ruleset) = "dict" /\ (HasRule(ruleset, "min") \/ HasRule(ruleset, "max"))

\* A value for which Ruleset.validate skips every rule of the ruleset
AllSkipped(ruleset, value) ==
  IsNone(value) /\ (HasRule(ruleset, "nullable") \/ ~HasRule(ruleset, "required"))

\* C10 (as amended): min or max on a field whose value type is dict is a
\* configuration error whenever the rules of the field are evaluated, that
\* is unless the value is None and the field is nullable or not required:
\* the call ends with an exception other than ValidationError, which
\* passes() and fails() let through, and the field has no key in errors();
\* on a None value of a nullable or not required field min and max are not
\* evaluated and no configuration error arises.
C10_UnsupportedTypeAborts ==
  \A n \in 1..Len(calls) :
    \A e \in Range(calls[n].log) :
      (e.kind \in {"field", "item"} /\ DictWithMinMax(rules[e.decl].ruleset)) =>
        IF AllSkipped(rules[e.decl].ruleset, e.value)
        THEN e.exc \in {"none", "ValidationError"}
        ELSE /\ e.exc \notin {"none", "ValidationError"}
             /\ calls[n].exc = e.exc
             /\ calls[n].ret = "none"
             /\ e.attribute \notin DOMAIN calls[n].view

\* C10 witness: passes() on {f: 'ab'} with dict|min:3 raised NotImplementedError
C10_Witness ==
  /\ Len(calls) = 1 /\ calls[1].op = "passes"
  /\ rulesIn = << << <<"f">>, <<"dict", "|", "min", ":", "3">> >> >>
  /\ calls[1].data = MapOf([f |-> PyStr("ab")])
  /\ calls[1].exc = "NotImplementedError"
  /\ DOMAIN calls[1].view = {}

\* C10 (as claimed): min or max on a field whose value type is dict ends the
\* call with an exception other than ValidationError whatever the value is.
C10_AbortsWhateverTheValue ==
  \A n \in 1..Len(calls) :
    \A e \in Range(calls[n].log) :
      (e.kind \in {"field", "item"} /\ DictWithMinMax(rules[e.decl].ruleset)) =>
        /\ e.exc \notin {"none", "ValidationError"}
        /\ calls[n].exc = e.exc
        /\ e.attribute \notin DOMAIN calls[n].view

\* The day of December 2022 a date string of the model names
DayOfDecember(text) ==
  CASE text = "2022-12-22" -> 22
    [] text = "2022-12-23" -> 23
    [] text = "2022-12-24" -> 24

\* The day the bound of a before rule names, today being December 23rd
BoundDay(text) ==
  CASE text = "tomorrow"  -> 24
    [] text = "yesterday" -> 22
    [] OTHER              -> DayOfDecember(text)

\* C11: with date: required|before:D and a date string as the value, a call
\* on unchanged data passes exactly when the day of the value is strictly
\* earlier than the day of D (a literal date, or tomorrow or yesterday taken
\* from today); otherwise fails() is true and, after the first call, errors()
\* is exactly {date: [the before message naming date and D as written]}.
C11_BeforeStrictlyEarlier ==
  \A n \in 1..Len(calls) :
    (rulesIn \in BeforeRules /\ ~calls[n].mutated) =>
      LET bound   == rulesIn[1][2][5]
          earlier == DayOfDecember(Field(calls[n].data, "date")[2]) < BoundDay(bound)
          message == Trans("en.before", <<"date">>, bound)
      IN  /\ Completed(calls[n])
          /\ earlier <=> DOMAIN calls[n].view = {}
          /\ (earlier /\ calls[n].op = "fails") => calls[n].ret = "False"
          /\ (earlier /\ calls[n].op = "passes") => calls[n].ret = "True"
          /\ ~earlier =>
               /\ DOMAIN calls[n].view = {<<"date">>}
               /\ Range(calls[n].view[<<"date">>]) = {message}
               /\ n = 1 => calls[n].view[<<"date">>] = <<message>>
               /\ calls[n].op = "fails" => calls[n].ret = "True"
               /\ calls[n].op = "passes" => calls[n].ret = "False"

\* C11 witness: '2022-12-23' against before:2022-12-23 failed with the
\* before message, as in test_before_with_date_fail
C11_Witness ==
  /\ Len(calls) = 1 /\ calls[1].op = "fails" /\ calls[1].ret = "True"
  /\ rulesIn = << << <<"date">>, <<"required", "|", "before", ":", "2022-12-23">> >> >>
  /\ calls[1].data = MapOf([date |-> PyStr("2022-12-23")])
  /\ calls[1].view = [k \in {<<"date">>} |-> <<Trans("en.before", <<"date">>, "2022-12-23")>>]

\* What min and max measure of a value of the declared type, in tenths:
\* the length of a string, the number of elements of a list, the value of a
\* number; -1 when the value is not of the declared type
Measure(valueType, v) ==
  CASE valueType = "string" /\ Tag(v) = "str" -> 10 * Len(v[2])
    [] valueType = "list" /\ Tag(v) = "list" -> 10 * Len(v[2])
    [] valueType \in {"numeric", "integer"} /\ Tag(v) = "int" -> 10 * v[2]
    [] valueType \in {"numeric", "integer"} /\ Tag(v) = "float" -> v[2]
    [] OTHER -> -1

\* The message of min or max for a value type
MinMaxMessage(word, valueType, bound) ==
  Trans("en." \o word \o "." \o (IF valueType = "integer" THEN "numeric" ELSE valueType),
        <<"f">>, bound)

\* C12 (as claimed): with f: <type>|min:3 or f: <type>|max:3, the type being
\* string, list, numeric or integer, and a value of that type (for numeric
\* and integer every number), after the first call the min (max) message is
\* under f exactly when the length, the element count or the numeric value
\* is below (above) 3; with min:3|max:3 on a string, 'ab' fails min alone,
\* 'abcd' fails max alone and 'abc' passes.
C12_MinMaxByValueType ==
  (Len(calls) >= 1 /\ Completed(calls[1]) /\ ~calls[1].mutated) =>
    LET v    == Field(calls[1].data, "f")
        msgs == IF <<"f">> \in DOMAIN calls[1].view THEN Range(calls[1].view[<<"f">>]) ELSE {}
    IN  /\ \A t \in {"string", "list", "numeric", "integer"}, w \in {"min", "max"} :
             (rulesIn = << << <<"f">>, <<t, "|", w, ":", "3">> >> >> /\ Measure(t, v) >= 0) =>
               ( MinMaxMessage(w, t, "3") \in msgs
                   <=> IF w = "min" THEN Measure(t, v) < 30 ELSE Measure(t, v) > 30 )
        /\ (rulesIn = << << <<"f">>, <<"min", ":", "3", "|", "max", ":", "3">> >> >> /\ IsStr(v)) =>
             msgs = (IF Len(v[2]) < 3 THEN {MinMaxMessage("min", "string", "3")} ELSE {})
                    \cup (IF Len(v[2]) > 3 THEN {MinMaxMessage("max", "string", "3")} ELSE {})

\* C13: with f: required, alone or with nullable, after the first call f has
\* no error when its value is a number or a boolean (0, 0.0 and False
\* included), when it is None and f is nullable, or when it is truthy; when
\* it is absent or None and f is not nullable, or an empty string, list or
\* map, errors() is exactly {f: [the required message]}.
C13_RequiredPasses ==
  (Len(calls) >= 1 /\ rulesIn \in RequiredRules /\ ~calls[1].mutated) =>
    LET v        == Field(calls[1].data, "f")
        nullable == "nullable" \in Range(rulesIn[1][2])
        passes   == \/ Tag(v) \in {"int", "float", "bool"}
                    \/ nullable /\ Tag(v) = "none"
                    \/ ~FailsRequired(v)
    IN  /\ Completed(calls[1])
        /\ passes => DOMAIN calls[1].view = {}
        /\ ~passes =>
             calls[1].view = [k \in {<<"f">>} |-> <<Trans("en.required", <<"f">>, "")>>]

\* C13 witness: f: required passed on the value 0
C13_Witness ==
  /\ Len(calls) = 1 /\ calls[1].op = "passes" /\ calls[1].ret = "True"
  /\ rulesIn = << << <<"f">>, <<"required">> >> >>
  /\ calls[1].data = MapOf([f |-> PyInt(0)])
  /\ DOMAIN calls[1].view = {}

\* The rule names a ruleset declares
Declared(ruleset) == {ruleset.rules[i].name : i \in 1..Len(ruleset.rules)}

\* The condition under which Ruleset.validate is to skip the rules of a ruleset
ToBeSkipped(ruleset, value) ==
  Tag(value) = "none" /\ ("nullable" \in Declared(ruleset) \/ "required" \notin Declared(ruleset))

RECURSIVE FailedPredicates(_, _, _)
\* The messages of the rules whose predicate, invoked on the value, fails
FailedPredicates(rs, attribute, value) ==
  IF rs = <<>> THEN <<>>
  ELSE (IF Passes(Head(rs), value) = "fail" THEN <<Message(Head(rs), attribute)>> ELSE <<>>)
       \o FailedPredicates(Tail(rs), attribute, value)

\* The rules of a ruleset whose predicate raises on the value
Raising(rs, value) == {i \in 1..Len(rs) : Passes(rs[i], value) \notin {"pass", "fail"}}

\* C14: in every evaluation of a declared field or wildcard element, when
\* the value is None and the ruleset declares nullable or does not declare
\* required, no predicate is invoked: the evaluation adds no message and
\* raises no exception of a predicate; otherwise every predicate is invoked
\* in order: the messages added are those of the failing predicates, or the
\* evaluation ends with the exception of the first predicate that raises.
C14_SkippedIffNoneAndOptional ==
  \A n \in 1..Len(calls) :
    \A e \in Range(calls[n].log) :
      e.kind \in {"field", "item"} =>
        LET rs == rules[e.decl].ruleset.rules IN
        IF ToBeSkipped(rules[e.decl].ruleset, e.value)
        THEN e.msgs = <<>> /\ e.exc \in {"none", "ValidationError"}
        ELSE IF Raising(rs, e.value) = {}
        THEN /\ e.msgs = FailedPredicates(rs, e.attribute, e.value)
             /\ e.msgs # <<>> => e.exc = "ValidationError"
        ELSE e.exc = Passes(rs[CHOOSE i \in Raising(rs, e.value) :
                                 \A j \in Raising(rs, e.value) : i <= j], e.value)

\* C14 witness: f: nullable|dict|min:1 on None returned without an error,
\* although the predicates of dict and min, if invoked on None, fail and raise
C14_Witness ==
  /\ Len(calls) = 1 /\ calls[1].raised = "none" /\ DOMAIN calls[1].view = {}
  /\ rulesIn = << << <<"f">>, <<"nullable", "|", "dict", "|", "min", ":", "1">> >> >>
  /\ calls[1].data = MapOf([f |-> None])
  /\ Passes(rules[1].ruleset.rules[2], None) = "fail"
  /\ Raising(rules[1].ruleset.rules, None) = {3}

\* C15 (as claimed): with a.*.b.*.c: required, the first call ends without
\* an exception other than ValidationError, also when an inner array is
\* empty, every element at an outer index i and an inner index j is
\* evaluated under the path a.i.b.j.c, and errors() has the key a.i.b.j.c
\* exactly for the elements that have no c.
C15_EveryIndexCombination ==
  (Len(calls) >= 1 /\ rulesIn = NestedRules /\ ~calls[1].mutated) =>
    LET outer == Field(calls[1].data, "a")[2]
        inner(i) == Field(outer[i], "b")[2]
        key(i, j) == <<"a", IndexText(i - 1), "b", IndexText(j - 1), "c">>
    IN  /\ Completed(calls[1])
        /\ \A i \in 1..Len(outer) : \A j \in 1..Len(inner(i)) :
             /\ \E e \in Range(calls[1].log) :
                  e.attribute = key(i, j) /\ e.value = Field(inner(i)[j], "c")
             /\ key(i, j) \in DOMAIN calls[1].view <=> IsNone(Field(inner(i)[j], "c"))
        /\ DOMAIN calls[1].view \subseteq
             {key(i, j) : i \in 1..Len(outer), j \in 1..MaxItems}

\* The positions of the log of a call that hold an entry of one of the kinds
Positions(log, kinds) == {i \in 1..Len(log) : log[i].kind \in kinds}

\* C16 (as claimed): in the first call, every synthesized rule belongs to an
\* evaluation of a dict-typed field or wildcard element that passed, is
\* evaluated after every declared field, on the value under the sub-key or
\* on None when the parent is not a map, and its failure is recorded under
\* field.subkey; the errors recorded for the declared fields stay as their
\* own rulesets left them.
C16_ExtraRulesAfterMainPass ==
  (Len(calls) >= 1 /\ Completed(calls[1]) /\ ~calls[1].mutated) =>
    LET log == calls[1].log IN
    /\ \A x \in Positions(log, {"extra"}) :
         /\ \E p \in Positions(log, {"field", "item"}) :
              /\ log[p].exc = "none"
              /\ \E k \in SubKeys(rules[log[p].decl].ruleset) :
                   /\ log[x].attribute = Append(log[p].attribute, k)
                   /\ log[x].value = IF Tag(log[p].value) = "dict" THEN Field(log[p].value, k)
                                     ELSE None
         /\ \A p \in Positions(log, {"field", "item"}) : p < x
         /\ log[x].exc = "ValidationError" => log[x].attribute \in DOMAIN calls[1].view
    /\ \A p \in Positions(log, {"field", "item"}) :
         /\ log[p].exc = "ValidationError" => calls[1].view[log[p].attribute] = log[p].msgs
         /\ log[p].exc = "none" => log[p].attribute \notin DOMAIN calls[1].view

\* The rule names of an expression in the order in which they are declared
NamesInOrder(expr) ==
  LET tokens == SplitOn(expr, "|") IN
  [i \in 1..Len(tokens) |-> IF tokens[i] = <<>> THEN "" ELSE tokens[i][1]]

\* The first declared name that is a value type, string when there is none
FirstTypeName(names) ==
  LET typed == {i \in 1..Len(names) :
                  names[i] \in {"string", "integer", "numeric", "list", "dict"}}
  IN  IF typed = {} THEN "string"
      ELSE names[CHOOSE i \in typed : \A j \in typed : i <= j]

\* C17: from construction on and through every call, every rule of every
\* ruleset carries the same metadata: as value type the first declared rule
\* name that is one of string, integer, numeric, list, dict (string when none
\* is declared), and whether required and nullable are declared; min and max
\* measure by that type, and sub-key rules are synthesized exactly when that
\* type is dict.
C17_FirstTypeRuleFixesValueType ==
  phase = "ready" =>
    /\ \A d \in 1..Len(rules) :
         LET names == NamesInOrder(rulesIn[d][2]) IN
         \A i \in 1..Len(rules[d].ruleset.rules) :
           /\ rules[d].ruleset.rules[i].value_type = FirstTypeName(names)
           /\ rules[d].ruleset.rules[i].required = ("required" \in Range(names))
           /\ rules[d].ruleset.rules[i].nullable = ("nullable" \in Range(names))
    /\ \A n \in 1..Len(calls) :
         rulesIn \in TypeOrderRules =>
           LET names == NamesInOrder(rulesIn[1][2])
               t     == FirstTypeName(names)
           IN  \A e \in Range(calls[n].log) :
                 /\ e.kind = "extra" => t = "dict"
                 /\ (e.kind = "field" /\ e.exc = "none" /\ t = "dict") =>
                      \E x \in Range(calls[n].log) :
                        x.kind = "extra" /\ x.attribute = <<"f", "name">>
                 /\ (e.kind = "field" /\ Measure(t, e.value) >= 0) =>
                      \A w \in {"min", "max"} :
                        w \in Range(names) =>
                          ( MinMaxMessage(w, t, "3") \in Range(e.msgs)
                              <=> IF w = "min" THEN Measure(t, e.value) < 30
                                  ELSE Measure(t, e.value) > 30 )

\* C17 witness: min:3|integer|string on 5 passed min as a number and failed
\* string
C17_Witness ==
  /\ Len(calls) = 1
  /\ rulesIn = << << <<"f">>, <<"min", ":", "3", "|", "integer", "|", "string">> >> >>
  /\ calls[1].data = MapOf([f |-> PyInt(5)])
  /\ calls[1].view = [k \in {<<"f">>} |-> <<Trans("en.string", <<"f">>, "")>>]
  /\ rules[1].ruleset.rules[1].value_type = "integer"

\* A lexeme of a rule expression in lower case
LowerCase(word) ==
  CASE word = "Required" -> "required"
    [] word = "String"   -> "string"
    [] word = "Integer"  -> "integer"
    [] word = "Min"      -> "min"
    [] OTHER             -> word

\* A rules mapping with its expressions in lower case
LowerRules(rin) ==
  [d \in 1..Len(rin) |->
     <<rin[d][1], [j \in 1..Len(rin[d][2]) |-> LowerCase(rin[d][2][j])]>>]

\* The outcome of a first call: the exception of validate() and errors()
Outcome(st) == [raised |-> st.exc, view |-> ErrorsView(st.rules, st.errors)]

\* C18 (as claimed): an expression whose rule names are written with capital
\* letters is accepted and gives rulesets with the value type and the
\* required and nullable flags of the expression in lower case, and the first
\* call on it ends as the first call of a Validator built from the lower-case
\* expression on the same data: the same exception or none, the same errors().
C18_RuleNamesCaseNormalised ==
  (rulesIn \in CaseRules /\ phase # "new") =>
    LET low == ParseRuleList(LowerRules(rulesIn), <<>>) IN
    /\ phase = "ready" /\ low.exc = "none"
    /\ \A d \in 1..Len(rules) :
         /\ rules[d].ruleset.rules[1].value_type = low.rules[d].ruleset.rules[1].value_type
         /\ rules[d].ruleset.rules[1].required = low.rules[d].ruleset.rules[1].required
         /\ rules[d].ruleset.rules[1].nullable = low.rules[d].ruleset.rules[1].nullable
    /\ (Len(calls) >= 1 /\ ~calls[1].mutated) =>
         Outcome(Validate(calls[1].data, low.rules, NoErrors))
           = [raised |-> calls[1].raised, view |-> calls[1].view]

\* C19: with b: same:a, after n calls the same rule holds n injected
\* parameters, the k-th being the value of a resolved by the k-th call; in
\* every call, also after the caller changed the data, a value of b that is
\* not None passes same exactly when it equals the value a had in the first
\* call, whatever a holds at the time of the call.
C19_SameComparesFirstSnapshot ==
  (rulesIn = SameRules /\ phase = "ready") =>
    LET same == rules[1].ruleset.rules[1] IN
    /\ Len(same.injected) = Len(calls)
    /\ \A k \in 1..Len(calls) :
         same.injected[k] = <<"pair", Field(calls[k].data, "a"), "a" \in DOMAIN calls[k].data[2]>>
    /\ \A n \in 1..Len(calls) :
         /\ Len(calls[n].log) = 1
         /\ ~IsNone(calls[n].log[1].value) =>
              calls[n].log[1].msgs =
                IF PyEq(calls[n].log[1].value, Field(calls[1].data, "a")) THEN <<>>
                ELSE <<Trans("en.same", <<"b">>, "a")>>

\* C19 witness: the first call failed with a 'y' and b 'x'; the caller then
\* set a to 'x', and the second call failed again although b equals a
C19_Witness ==
  /\ rulesIn = SameRules /\ Len(calls) = 2
  /\ Field(calls[1].data, "a") = PyStr("y")
  /\ calls[2].data = MapOf([a |-> PyStr("x"), b |-> PyStr("x")])
  /\ calls[2].log[1].msgs = <<Trans("en.same", <<"b">>, "a")>>
  /\ Len(rules[1].ruleset.rules[1].injected) = 2

====
